---------------------------- MODULE Spec2Model ----------------------------
(***************************************************************************)
(* ViewInk: the ModalPopup controller of src/src/index.ts.                 *)
(*                                                                         *)
(* A string is a sequence of one-character strings.  A Record<string,      *)
(* string> is the sequence of its <<key, value>> entries in the order      *)
(* Object.entries / Object.values enumerate them (insertion order, the     *)
(* keys used here are not integer-like).  An optional value is <<>> when   *)
(* absent and <<v>> when present.                                          *)
(***************************************************************************)
EXTENDS Integers, Sequences, FiniteSets, TLC

\* ------------------------------------------------------------ bounds
MaxCalls == 3
MaxParams == 2

\* ------------------------------------------------------------ strings
Lower == {"a","b","c","d","e","f","g","h","i","j","k","l","m",
          "n","o","p","q","r","s","t","u","v","w","x","y","z"}
Upper == {"A","B","C","D","E","F","G","H","I","J","K","L","M",
          "N","O","P","Q","R","S","T","U","V","W","X","Y","Z"}
Digit == {"0","1","2","3","4","5","6","7","8","9"}

\* the complement of the class [^a-zA-Z0-9-_] of validateParams
AllowedChar_lettersAndDigits == Lower \cup Upper \cup Digit
AllowedChar == Lower \cup Upper \cup Digit \cup {"-", "_"}

\* /[^a-zA-Z0-9-_]/.test(value)
RegexTest(value) == \E i \in 1..Len(value) : value[i] \notin AllowedChar

\* String.prototype.indexOf: the first position pat occurs at in s, 0 if none
IndexOf(s, pat) ==
    LET hits == {i \in 1..(Len(s) - Len(pat) + 1) :
                    SubSeq(s, i, i + Len(pat) - 1) = pat}
    IN IF hits = {} THEN 0 ELSE CHOOSE i \in hits : \A j \in hits : i <= j

\* String.prototype.replace with a string pattern: only the first occurrence
\* is replaced.  The replacement is a validated value, so it holds no "$".
StringReplace(s, pat, rep) ==
    LET i == IndexOf(s, pat)
    IN IF i = 0 THEN s
       ELSE SubSeq(s, 1, i - 1) \o rep \o SubSeq(s, i + Len(pat), Len(s))

\* application/x-www-form-urlencoded percent-encode set of URLSearchParams
FormSafe == Lower \cup Upper \cup Digit \cup {"*", "-", ".", "_"}
PercentCode(c) ==
    CASE c = ":" -> <<"%", "3", "A">>
      [] c = "/" -> <<"%", "2", "F">>
      [] c = "?" -> <<"%", "3", "F">>
      [] c = "&" -> <<"%", "2", "6">>
      [] c = "=" -> <<"%", "3", "D">>
      [] c = "$" -> <<"%", "2", "4">>
EncodeChar(c) ==
    IF c \in FormSafe THEN <<c>> ELSE IF c = " " THEN <<"+">> ELSE PercentCode(c)
RECURSIVE FormEncode(_)
FormEncode(s) ==
    IF s = <<>> THEN <<>> ELSE EncodeChar(Head(s)) \o FormEncode(Tail(s))

\* new URLSearchParams(record).toString()
RECURSIVE SearchParamsToString(_)
SearchParamsToString(params) ==
    IF params = <<>> THEN <<>>
    ELSE FormEncode(params[1][1]) \o <<"=">> \o FormEncode(params[1][2])
         \o (IF Len(params) > 1 THEN <<"&">> ELSE <<>>)
         \o SearchParamsToString(Tail(params))

\* ------------------------------------------------------------ state
VARIABLES
    cfg,              \* the ModalPopupConfig given to the constructor
    browser,          \* typeof window / typeof document are not 'undefined'
    modalUrl,         \* this.modalUrl: <<>> is null, <<t>> the template t
    modalElementMap,  \* the element the WeakMap holds for this, or NoElement
    body,             \* the controller's elements that are children of document.body
    elements,         \* the live modal elements: id -> [src, errorMessages]
    created,          \* how many createModalElement calls ran (the next id - 1)
    callbacks,        \* every onOpen / onClose invocation so far, in order
    trace,            \* what the last public call or DOM event did, in order
    last,             \* the last public call or DOM event and how it ended
    unloadListener,   \* the window still has the constructor's beforeunload listener
    unloadTimer,      \* the debounce timeout of that listener is pending
    calls             \* public calls and DOM events so far

vars == <<cfg, browser, modalUrl, modalElementMap, body, elements, created,
          callbacks, trace, last, calls, unloadListener,
         unloadTimer>>

\* WeakMap.get / has on a missing key
NoElement == 0

\* the mutable part of the state, as the methods thread it
Machine == [map |-> modalElementMap, body |-> body, elements |-> elements,
            created |-> created, callbacks |-> callbacks, trace |-> <<>>,
            modalUrl |-> modalUrl]

NoParams == <<>>
Ev(e, id, err, s, pp, qp) ==
    [ev |-> e, id |-> id, err |-> err, s |-> s, pp |-> pp, qp |-> qp]
Log(m, e, id, err) ==
    [m EXCEPT !.trace = Append(@, Ev(e, id, err, <<>>, NoParams, NoParams))]
Returned(m) == [m |-> m, threw |-> ""]
Threw(m, err) == [m |-> m, threw |-> err]

\* ------------------------------------------------------------ constructor
\* this.modalUrl = cfg.url || null
ConstructModalUrl(c) ==
    IF c.url = <<>> THEN <<>>
    ELSE IF Len(c.url[1]) = 0 THEN <<>> ELSE c.url

\* ------------------------------------------------------------ buildUrl
\* Object.values(params)
ObjectValues(params) == [i \in 1..Len(params) |-> params[i][2]]

\* validateParams: throws on the first value the regex matches
ValidateParamsThrows(params) ==
    \E i \in 1..Len(params) : RegexTest(ObjectValues(params)[i])

\* if (!this.modalUrl)
UrlMissing(mUrl) == mUrl = <<>>

\* the loop over Object.entries(pathParams): url = url.replace(`:${key}`, value)
ReplacePlaceholders_firstEntry(url, pathParams) ==
    IF pathParams = <<>> THEN url
    ELSE StringReplace(url, <<":">> \o pathParams[1][1], pathParams[1][2])
RECURSIVE ReplacePlaceholders(_, _)
ReplacePlaceholders(url, pathParams) ==
    IF pathParams = <<>> THEN url
    ELSE ReplacePlaceholders(
             StringReplace(url, <<":">> \o pathParams[1][1], pathParams[1][2]),
             Tail(pathParams))

\* buildUrl: [threw |-> "" or the error, url |-> the result]
BuildUrl_validateFirst(mUrl, pathParams, queryParams) ==
    IF ValidateParamsThrows(pathParams) \/ ValidateParamsThrows(queryParams)
    THEN [threw |-> "ValidationError", url |-> <<>>]
    ELSE IF UrlMissing(mUrl) THEN [threw |-> "ConfigurationError", url |-> <<>>]
    ELSE [threw |-> "",
          url |-> ReplacePlaceholders(mUrl[1], pathParams) \o <<"?">>
                  \o SearchParamsToString(queryParams)]
BuildUrl_omitEmptyQuery(mUrl, pathParams, queryParams) ==
    IF UrlMissing(mUrl) THEN [threw |-> "ConfigurationError", url |-> <<>>]
    ELSE IF ValidateParamsThrows(pathParams) \/ ValidateParamsThrows(queryParams)
    THEN [threw |-> "ValidationError", url |-> <<>>]
    ELSE [threw |-> "",
          url |-> ReplacePlaceholders(mUrl[1], pathParams)
                  \o (IF queryParams = <<>> THEN <<>>
                      ELSE <<"?">> \o SearchParamsToString(queryParams))]
BuildUrl(mUrl, pathParams, queryParams) ==
    IF UrlMissing(mUrl) THEN [threw |-> "ConfigurationError", url |-> <<>>]
    ELSE IF ValidateParamsThrows(pathParams)
    THEN [threw |-> "ValidationError", url |-> <<>>]
    ELSE IF ValidateParamsThrows(queryParams)
    THEN [threw |-> "ValidationError", url |-> <<>>]
    ELSE [threw |-> "",
          url |-> ReplacePlaceholders(mUrl[1], pathParams) \o <<"?">>
                  \o SearchParamsToString(queryParams)]

\* ------------------------------------------------------------ styles
\* A style map is the sequence of its <<property, value>> entries.
\* DEFAULT_STYLES
DEFAULT_STYLES ==
    [container |-> << <<"position", "fixed">>, <<"top", "0">>, <<"left", "0">>,
                      <<"width", "100%">>, <<"height", "100%">>,
                      <<"backgroundColor", "rgba(0, 0, 0, 0.5)">>,
                      <<"backdropFilter", "blur(10px)">>, <<"display", "flex">>,
                      <<"justifyContent", "center">>, <<"alignItems", "center">>,
                      <<"zIndex", "1000">> >>,
     content |-> << <<"backgroundColor", "white">>, <<"padding", "20px">>,
                    <<"borderRadius", "8px">>, <<"width", "80%">>,
                    <<"maxWidth", "80%">>, <<"position", "relative">> >>,
     iframe |-> << <<"width", "100%">>, <<"height", "80vh">>,
                   <<"border", "none">>, <<"borderRadius", "4px">> >>]

\* target[key] = value: an own key keeps its place, a new one goes last
SetProperty(target, key, value) ==
    IF \E i \in 1..Len(target) : target[i][1] = key
    THEN [i \in 1..Len(target) |->
             IF target[i][1] = key THEN <<key, value>> ELSE target[i]]
    ELSE Append(target, <<key, value>>)

\* Object.assign(target, source): the entries of source are set in order;
\* an undefined source (an absent override, the empty map here) sets nothing
RECURSIVE ObjectAssign(_, _)
ObjectAssign(target, source) ==
    IF source = <<>> THEN target
    ELSE ObjectAssign(SetProperty(target, source[1][1], source[1][2]),
                      Tail(source))

\* Object.assign({}, DEFAULT_STYLES.<region>, this.cfg.styles?.<region>)
MergeStyles_defaultsWin(defaults, override) ==
    ObjectAssign(ObjectAssign(<<>>, override), defaults)
MergeStyles(defaults, override) ==
    ObjectAssign(ObjectAssign(<<>>, defaults), override)

\* the three merges of createModalElement, as applyStyles puts them on the
\* container, the content panel and the iframe
AppliedStyles(c) ==
    [container |-> MergeStyles(DEFAULT_STYLES.container, c.styles.container),
     content |-> MergeStyles(DEFAULT_STYLES.content, c.styles.content),
     iframe |-> MergeStyles(DEFAULT_STYLES.iframe, c.styles.iframe)]

\* the iframe's sandbox attribute: the setAttribute('sandbox', ...) line is
\* commented out and cfg.sandbox is never read, so the attribute is absent
IframeSandbox_applied(c) ==
    IF c.sandbox = <<>> THEN <<"allow-scripts allow-same-origin">> ELSE c.sandbox
IframeSandbox(c) == <<>>

\* ------------------------------------------------------------ DOM
\* createModalElement: a new container -> content -> {close button, iframe}
\* with iframe.src = url; the element is not attached yet
CreateModalElement(m, url) ==
    LET id == m.created + 1
    IN [m EXCEPT !.created = id,
                 !.elements = (id :> [src |-> url, errorMessages |-> 0,
                                      styles |-> AppliedStyles(cfg),
                                      sandbox |-> IframeSandbox(cfg)]) @@ @,
                 !.trace = Append(@, Ev("createModalElement", id, "", url,
                                        NoParams, NoParams))]

\* this.modalElementMap.has(this)
MapHas_never(m) == FALSE
MapHas(m) == m.map # NoElement

\* this.modalElementMap.set(this, modalElement)
MapSet(m, id) == [m EXCEPT !.map = id]

\* this.modalElementMap.delete(this)
MapDelete_skip(m) == m
MapDelete(m) == [m EXCEPT !.map = NoElement]

\* document.body.appendChild(modalElement)
AppendChild(m, id) ==
    [m EXCEPT !.body = @ \cup {id},
              !.trace = Append(@, Ev("appendChild", id, "", <<>>,
                                     NoParams, NoParams))]

\* document.body.removeChild(modalElement): NotFoundError unless a child.
\* A detached element is unreachable (no click, no frame load): it is dropped.
RemoveChild(m, id) ==
    IF id \notin m.body THEN Threw(m, "NotFoundError")
    ELSE Returned([m EXCEPT !.body = @ \ {id},
                            !.elements = [e \in (DOMAIN @) \ {id} |-> @[e]],
                            !.trace = Append(@, Ev("removeChild", id, "", <<>>,
                                                   NoParams, NoParams))])

\* ------------------------------------------------------------ methods
\* What a configured callback does when invoked: it returns, it throws, or it
\* calls back into the controller (openPopup() with the default arguments, or
\* closePopup()).  An absent callback is the constructor's () => { }.
CallbackKinds == {"returns", "throws", "openPopup", "closePopup"}

\* Configurations whose callbacks call each other without end (onClose calling
\* closePopup; onOpen calling closePopup while onClose calls openPopup) exhaust
\* the stack wherever the engine happens to be; they are left out.
Terminates(c) ==
    /\ c.onClose # "closePopup"
    /\ ~(c.onOpen = "closePopup" /\ c.onClose = "openPopup")

\* the deepest chain of calls a terminating configuration makes:
\* closePopup -> onClose -> openPopup -> onOpen -> openPopup
StackDepth == 3

\* openPopup's catch block: console.error, and the error goes no further
CatchError_rethrow(r) == r
CatchError(r) ==
    IF r.threw = "" THEN r
    ELSE Returned(Log(r.m, "console.error", 0, r.threw))

\* typeof window === 'undefined' || typeof document === 'undefined'
NotInBrowser == ~browser

RECURSIVE openPopup(_, _, _, _)
RECURSIVE closePopup(_, _)

\* this.onOpen() / this.onClose(): the invocation is recorded, then the
\* callback runs
Invoke(m, name, kind, depth) ==
    LET m1 == [Log(m, name, 0, "") EXCEPT !.callbacks = Append(@, name)]
    IN CASE kind = "returns" -> Returned(m1)
         [] kind = "throws" -> Threw(m1, "CallbackError")
         [] kind = "openPopup" ->
                IF depth = 0 THEN Threw(m1, "RangeError")
                ELSE openPopup(m1, NoParams, NoParams, depth - 1)
         [] kind = "closePopup" ->
                IF depth = 0 THEN Threw(m1, "RangeError")
                ELSE closePopup(m1, depth - 1)

\* this.modalUrl after buildUrl: `let url = this.modalUrl` is a copy, the
\* placeholders are replaced in the copy and the field is never assigned
ModalUrlAfterBuild_inPlace(mUrl, pathParams, queryParams) ==
    IF BuildUrl(mUrl, pathParams, queryParams).threw # "" THEN mUrl
    ELSE <<ReplacePlaceholders(mUrl[1], pathParams)>>
ModalUrlAfterBuild(mUrl, pathParams, queryParams) == mUrl

\* const url = this.buildUrl(pathParams, queryParams), with the call recorded
CallBuildUrl(m, pathParams, queryParams) ==
    LET b == BuildUrl(m.modalUrl, pathParams, queryParams)
    IN [m |-> [m EXCEPT !.trace = Append(@, Ev("buildUrl", 0, b.threw, b.url,
                                               pathParams, queryParams)),
                        !.modalUrl = ModalUrlAfterBuild(@, pathParams,
                                                        queryParams)],
        threw |-> b.threw, url |-> b.url]

\* createModalElement, modalElementMap.set, appendChild, this.onOpen()
AttachAndNotify_notifyBeforeAppend(m, url, depth) ==
    LET m2 == CreateModalElement(m, url)
        m3 == MapSet(m2, m2.created)
        r == Invoke(m3, "onOpen", cfg.onOpen, depth)
    IN IF r.threw # "" THEN r
       ELSE IF r.m.map = m2.created THEN Returned(AppendChild(r.m, m2.created))
       ELSE r
AttachAndNotify(m, url, depth) ==
    LET m2 == CreateModalElement(m, url)
        m3 == MapSet(m2, m2.created)
        m4 == AppendChild(m3, m2.created)
    IN Invoke(m4, "onOpen", cfg.onOpen, depth)

\* the try block of openPopup
OpenPopupTry_noReturn(m, pathParams, queryParams, depth) ==
    IF NotInBrowser THEN Threw(m, "EnvironmentError")
    ELSE LET m0 == IF MapHas(m) THEN Log(m, "console.warn", m.map, "already open")
                   ELSE m
             b == CallBuildUrl(m0, pathParams, queryParams)
         IN IF b.threw # "" THEN Threw(b.m, b.threw)
            ELSE AttachAndNotify(b.m, b.url, depth)
OpenPopupTry_notifyFirst(m, pathParams, queryParams, depth) ==
    IF NotInBrowser THEN Threw(m, "EnvironmentError")
    ELSE IF MapHas(m) THEN Returned(Log(m, "console.warn", m.map, "already open"))
    ELSE LET r == Invoke(m, "onOpen", cfg.onOpen, depth)
             b == CallBuildUrl(r.m, pathParams, queryParams)
         IN IF r.threw # "" THEN r
            ELSE IF b.threw # "" THEN Threw(b.m, b.threw)
            ELSE LET m2 == CreateModalElement(b.m, b.url)
                 IN Returned(AppendChild(MapSet(m2, m2.created), m2.created))
OpenPopupTry(m, pathParams, queryParams, depth) ==
    IF NotInBrowser THEN Threw(m, "EnvironmentError")
    ELSE IF MapHas(m) THEN Returned(Log(m, "console.warn", m.map, "already open"))
    ELSE LET b == CallBuildUrl(m, pathParams, queryParams)
         IN IF b.threw # "" THEN Threw(b.m, b.threw)
            ELSE AttachAndNotify(b.m, b.url, depth)

openPopup(m, pathParams, queryParams, depth) ==
    CatchError(OpenPopupTry(Log(m, "openPopup", m.map, ""),
                            pathParams, queryParams, depth))

closePopup_noNotify(m, depth) ==
    LET m0 == Log(m, "closePopup", m.map, "")
        modalElement == m0.map
    IN IF modalElement # NoElement
       THEN LET rm == RemoveChild(m0, modalElement)
            IN IF rm.threw # "" THEN rm ELSE Returned(MapDelete(rm.m))
       ELSE Returned(Log(m0, "console.warn", 0, "no modal"))
closePopup(m, depth) ==
    LET m0 == Log(m, "closePopup", m.map, "")
        modalElement == m0.map
        r == IF modalElement # NoElement
             THEN LET rm == RemoveChild(m0, modalElement)
                  IN IF rm.threw # "" THEN rm ELSE Returned(MapDelete(rm.m))
             ELSE Returned(Log(m0, "console.warn", 0, "no modal"))
    IN IF r.threw # "" THEN r
       ELSE Invoke(r.m, "onClose", cfg.onClose, depth)

\* modalContainer's click listener: closePopup when the click's target is the
\* container itself
ContainerClickListener_anyTarget(m, target, depth) == closePopup(m, depth)
ContainerClickListener(m, target, depth) ==
    IF target = "container" THEN closePopup(m, depth) ELSE Returned(m)

\* closeButton's click listener
CloseButtonClickListener(m, depth) == closePopup(m, depth)

\* A click on a part of the modal element el.  The listeners on the path from
\* the target up to the container run in that order (the close button has one,
\* the content panel and the iframe have none); an error a listener throws is
\* reported and does not stop the event.  The error kept is the first one.
DispatchClick(m, el, target, depth) ==
    LET m0 == Log(m, "click", el, target)
        r1 == IF target = "closeButton" THEN CloseButtonClickListener(m0, depth)
              ELSE Returned(m0)
        r2 == ContainerClickListener(r1.m, target, depth)
    IN [m |-> r2.m, threw |-> IF r1.threw # "" THEN r1.threw ELSE r2.threw]

\* the iframe's 'error' listener: a div 'Failed to load content.' is appended
\* to the content panel, and console.error reports the URL
IframeErrorListener_closes(m, el) == closePopup(m, StackDepth)
IframeErrorListener(m, el) ==
    LET m1 == [m EXCEPT !.elements[el].errorMessages = @ + 1]
    IN Returned(Log(m1, "console.error", el, "iframe load"))

\* ------------------------------------------------------------ inputs
\* the template "/:ab/:a/:a/:c": a placeholder whose name starts with
\* another's, a placeholder that occurs twice, and one no parameter names
Templates == { <<"/", ":", "a", "b", "/", ":", "a", "/", ":", "a", "/", ":", "c">> }
\* the examples of the documentation: templates, arguments, results
\* "https://example.com/:store_name/:product_slug/"
ExampleTemplate ==
    <<"h", "t", "t", "p", "s", ":", "/", "/", "e", "x", "a", "m", "p", "l",
       "e", ".", "c", "o", "m", "/", ":", "s", "t", "o", "r", "e", "_", "n",
       "a", "m", "e", "/", ":", "p", "r", "o", "d", "u", "c", "t", "_", "s",
       "l", "u", "g", "/">>
\* "http://127.0.0.1/:store_name/:product_slug/"
ReadmeTemplate ==
    <<"h", "t", "t", "p", ":", "/", "/", "1", "2", "7", ".", "0", ".", "0",
       ".", "1", "/", ":", "s", "t", "o", "r", "e", "_", "n", "a", "m", "e",
       "/", ":", "p", "r", "o", "d", "u", "c", "t", "_", "s", "l", "u", "g",
       "/">>

\* {store_name: "store", product_slug: "666"}
ExamplePath ==
    << << <<"s","t","o","r","e","_","n","a","m","e">>, <<"s","t","o","r","e">> >>,
       << <<"p","r","o","d","u","c","t","_","s","l","u","g">>, <<"6","6","6">> >> >>
\* {color: "black", size: "medium"}
ExampleQuery ==
    << << <<"c","o","l","o","r">>, <<"b","l","a","c","k">> >>,
       << <<"s","i","z","e">>, <<"m","e","d","i","u","m">> >> >>
\* the documented call, the same entries given in the other order, and calls
\* that leave a map empty
ExampleArguments ==
    { <<ExamplePath, ExampleQuery>>,
      << <<ExamplePath[2], ExamplePath[1]>>, <<ExampleQuery[2], ExampleQuery[1]>> >>,
      <<ExamplePath, NoParams>>,
      <<NoParams, NoParams>> }

\* cfg.url: absent, the empty string, or a template
UrlOptions ==
    {<<>>, << <<>> >>}
        \cup {<<t>> : t \in Templates \cup {ExampleTemplate, ReadmeTemplate}}

PathKeys == {<<"a">>, <<"a", "b">>}
\* "Z-_9", and "x/" (a separator the allow-list rejects)
PathValues == {<<"Z", "-", "_", "9">>, <<"x", "/">>}
QueryKeys == {<<"q">>, <<"r">>}
\* "" and "a&b" (rejected)
QueryValues == {<<>>, <<"a", "&", "b">>}

\* the records with at most MaxParams entries, keys distinct
ParamMaps(keys, values) ==
    UNION {{p \in [1..n -> keys \X values] :
               \A i, j \in 1..n : i # j => p[i][1] # p[j][1]} : n \in 0..MaxParams}
PathMaps == ParamMaps(PathKeys, PathValues)
QueryMaps == ParamMaps(QueryKeys, QueryValues)
\* the argument pairs of one openPopup call: at most MaxParams entries in all
Arguments ==
    {a \in PathMaps \X QueryMaps : Len(a[1]) + Len(a[2]) <= MaxParams}

\* the arguments tried on a controller: the documented ones on a documented
\* template, the short ones elsewhere
ArgumentsOf(c) ==
    IF c.url \in {<<ExampleTemplate>>, <<ReadmeTemplate>>}
    THEN ExampleArguments ELSE Arguments

\* cfg.styles: absent, the overrides of the documentation (one per region),
\* and a property the defaults do not have
NoStyles == [container |-> <<>>, content |-> <<>>, iframe |-> <<>>]
StyleOptions ==
    { NoStyles,
      [container |-> << <<"backgroundColor", "rgba(0, 0, 0, 0.8)">> >>,
       content |-> << <<"width", "90%">> >>,
       iframe |-> << <<"height", "90vh">> >>],
      [container |-> << <<"opacity", "0.9">>, <<"width", "50%">> >>,
       content |-> <<>>, iframe |-> <<>>] }
\* cfg.sandbox: absent or a directive
SandboxOptions == {<<>>, <<"allow-forms">>}

\* Styles and sandbox are read by createModalElement alone; they are varied
\* on the documented template with callbacks that return.
Configs ==
    {c \in [url : UrlOptions, onOpen : CallbackKinds, onClose : CallbackKinds,
            styles : StyleOptions, sandbox : SandboxOptions] :
        /\ Terminates(c)
        /\ (c.styles # NoStyles \/ c.sandbox # <<>>) =>
               /\ c.url = <<ExampleTemplate>>
               /\ c.onOpen = "returns"
               /\ c.onClose = "returns"}

\* ------------------------------------------------------------ specification
\* the debounced function of the beforeunload listener:
\* (window as any).closePopup?.().  It reads the property closePopup of the
\* window, not this.closePopup; nothing in the package defines that property,
\* so the optional call calls nothing.
WindowClosePopup(m, depth) == Returned(m)

\* new ModalPopup(cfg).  In a browser the constructor registers the debounced
\* beforeunload listener, once.
Init ==
    /\ cfg \in Configs
    /\ browser \in BOOLEAN
    /\ modalUrl = ConstructModalUrl(cfg)
    /\ modalElementMap = NoElement
    /\ body = {}
    /\ elements = <<>>
    /\ created = 0
    /\ callbacks = <<>>
    /\ trace = <<>>
    /\ last = [op |-> "new", threw |-> ""]
    /\ unloadListener = browser
    /\ unloadTimer = FALSE
    /\ calls = 0

\* the state a call or event leaves
Commit(r, op) ==
    /\ modalElementMap' = r.m.map
    /\ body' = r.m.body
    /\ elements' = r.m.elements
    /\ created' = r.m.created
    /\ callbacks' = r.m.callbacks
    /\ trace' = r.m.trace
    /\ last' = [op |-> op, threw |-> r.threw]
    /\ calls' = calls + 1
    /\ modalUrl' = r.m.modalUrl
    /\ UNCHANGED <<cfg, browser, unloadListener, unloadTimer>>

\* modal.openPopup(pathParams, queryParams)
OpenPopup ==
    /\ calls < MaxCalls
    /\ \E a \in ArgumentsOf(cfg) :
          Commit(openPopup(Machine, a[1], a[2], StackDepth), "openPopup")

\* modal.closePopup()
ClosePopup ==
    /\ calls < MaxCalls
    /\ Commit(closePopup(Machine, StackDepth), "closePopup")

\* a click whose target is the container itself: the container's listener
\* calls this.closePopup()
ClickBackdrop ==
    /\ calls < MaxCalls
    /\ \E el \in body :
          Commit(DispatchClick(Machine, el, "container", StackDepth),
                 "clickBackdrop")

\* a click on the content panel or the iframe: it bubbles to the container,
\* whose listener finds event.target !== modalContainer and does nothing
ClickContent ==
    /\ calls < MaxCalls
    /\ \E el \in body :
          Commit(DispatchClick(Machine, el, "content", StackDepth),
                 "clickContent")

\* a click on the close button: its listener calls this.closePopup(); the
\* click then bubbles to the container, whose listener does nothing
ClickCloseButton ==
    /\ calls < MaxCalls
    /\ \E el \in body :
          Commit(DispatchClick(Machine, el, "closeButton", StackDepth),
                 "clickCloseButton")

\* the iframe's 'error' event: an error message is appended to the content
\* panel and the failure is logged
FrameError ==
    /\ calls < MaxCalls
    /\ \E el \in body :
          Commit(IframeErrorListener(Machine, el), "frameError")

\* the window dispatches beforeunload.  A registered listener is removed
\* ({ once: true }) and runs: clearTimeout, then setTimeout(func, 300).
BeforeUnload ==
    /\ calls < MaxCalls
    /\ browser
    /\ unloadListener' = FALSE
    /\ unloadTimer' = (unloadTimer \/ unloadListener)
    /\ trace' = <<Ev("beforeunload", 0,
                     IF unloadListener THEN "listener" ELSE "no listener",
                     <<>>, NoParams, NoParams)>>
    /\ last' = [op |-> "beforeUnload", threw |-> ""]
    /\ calls' = calls + 1
    /\ UNCHANGED <<cfg, browser, modalUrl, modalElementMap, body, elements,
                   created, callbacks>>

\* the page is still there 300 ms later and the timeout fires
UnloadTimeout ==
    /\ calls < MaxCalls
    /\ unloadTimer
    /\ unloadTimer' = FALSE
    /\ UNCHANGED unloadListener
    /\ LET r == WindowClosePopup(Log(Machine, "timeout", 0, ""), StackDepth)
       IN /\ modalElementMap' = r.m.map
          /\ body' = r.m.body
          /\ elements' = r.m.elements
          /\ created' = r.m.created
          /\ callbacks' = r.m.callbacks
          /\ trace' = r.m.trace
          /\ modalUrl' = r.m.modalUrl
          /\ last' = [op |-> "unloadTimeout", threw |-> r.threw]
    /\ calls' = calls + 1
    /\ UNCHANGED <<cfg, browser>>

Next ==
    \/ OpenPopup
    \/ ClosePopup
    \/ ClickBackdrop
    \/ ClickContent
    \/ ClickCloseButton
    \/ FrameError
    \/ BeforeUnload
    \/ UnloadTimeout

Spec == Init /\ [][Next]_vars

\* ------------------------------------------------------------ reading a trace
EventsOf(tr, e) == {i \in 1..Len(tr) : tr[i].ev = e}
Count(seq, x) == Cardinality({i \in 1..Len(seq) : seq[i] = x})
\* the controller holds an element / holds none
IsOpen == modalElementMap # NoElement
IsClosed == modalElementMap = NoElement
\* a callback that was invoked called back into the controller
Reentered(tr) == \E i \in 2..Len(tr) : tr[i].ev \in {"openPopup", "closePopup"}
OpenFailures == {"ConfigurationError", "ValidationError", "EnvironmentError"}

\* the model's stack is deep enough for every configuration it admits, and
\* removeChild is only ever given a child of the body
ModelSanity ==
    \A i \in 1..Len(trace) :
        trace[i].err \notin {"RangeError", "NotFoundError"}

\* ------------------------------------------------------------ claims

\* C1: after any sequence of openPopup, closePopup, backdrop clicks,
\* close-button clicks and frame errors, the controller has zero or one
\* element attached to the document body, never two.
C1_AtMostOneSubtree == Cardinality(body) <= 1

\* C1 witness: an openPopup on an open controller has run and one element
\* is attached.
C1_Witness ==
    /\ last.op = "openPopup"
    /\ \E i \in EventsOf(trace, "console.warn") : trace[i].err = "already open"
    /\ Cardinality(body) = 1

\* C2: openPopup on an open controller warns and returns with no side
\* effect: no URL built, no element created or attached, the association and
\* the callbacks untouched; after two successive openPopup calls one element
\* is attached and onOpen has fired exactly once.
C2_OpenWhileOpenIsNoOp ==
    [][(last'.op = "openPopup" /\ IsOpen) =>
          /\ last'.threw = ""
          /\ Len(trace') = 2
          /\ trace'[2].ev = "console.warn"
          /\ EventsOf(trace', "buildUrl") = {}
          /\ modalElementMap' = modalElementMap
          /\ body' = body
          /\ elements' = elements
          /\ created' = created
          /\ callbacks' = callbacks
          /\ (calls = 1 /\ last.op = "openPopup" =>
                 /\ Cardinality(body') = 1
                 /\ Count(callbacks', "onOpen") = 1)]_vars

\* C2 witness: the second of two successive openPopup calls has returned.
C2_Witness ==
    /\ calls = 2
    /\ last.op = "openPopup"
    /\ Len(trace) = 2
    /\ trace[2].ev = "console.warn"
    /\ callbacks = <<"onOpen">>
    /\ Cardinality(body) = 1

\* C3: every closePopup call invokes onClose exactly once; with no element
\* recorded it warns, changes no state, invokes onClose once and does not
\* throw.
C3_CloseAlwaysNotifies ==
    last.op = "closePopup" =>
        /\ Cardinality(EventsOf(trace, "onClose")) = 1
        /\ (trace[1].id = NoElement =>
               /\ Len(trace) >= 3
               /\ trace[2].ev = "console.warn"
               /\ trace[3].ev = "onClose"
               /\ EventsOf(trace, "removeChild") = {}
               /\ (~Reentered(trace) => IsClosed /\ body = {})
               /\ last.threw = "")

\* every value of both maps is made of letters, digits, "_" and "-"
C4_ValidArguments(pp, qp) ==
    \A i \in 1..Len(pp \o qp) :
        \A k \in 1..Len((pp \o qp)[i][2]) :
            (pp \o qp)[i][2][k] \in Lower \cup Upper \cup Digit \cup {"_", "-"}

\* C4: closePopup on an open controller detaches the element and clears the
\* association; an openPopup with valid parameters that follows an earlier
\* open/close cycle attaches a newly created element (never an earlier one),
\* records it and invokes onOpen again.  What an invoked callback itself does
\* by calling back into the controller is the callback's, not the call's.
C4_CloseThenReopen ==
    [][/\ (last'.op = "closePopup" /\ IsOpen) =>
             /\ modalElementMap \notin body'
             /\ modalElementMap' # modalElementMap
             /\ trace'[2].ev = "removeChild" /\ trace'[2].id = modalElementMap
             /\ trace'[3].ev = "onClose"
             /\ (~Reentered(trace') => modalElementMap' = NoElement /\ body' = {})
       /\ (/\ last'.op = "openPopup" /\ IsClosed /\ created >= 1
           /\ browser /\ cfg.url # <<>> /\ cfg.url # << <<>> >>
           /\ C4_ValidArguments(trace'[2].pp, trace'[2].qp)) =>
             /\ created' = created + 1
             /\ \E i \in EventsOf(trace', "appendChild") :
                   /\ trace'[i].id = created + 1
                   /\ trace'[i + 1].ev = "onOpen"
             /\ Count(callbacks', "onOpen") = Count(callbacks, "onOpen") + 1
             /\ last'.threw = ""
             /\ (~Reentered(trace') =>
                    /\ modalElementMap' = created + 1
                    /\ body' = {created + 1})]_vars

\* C4 witness: open, close, open again: the second element is attached.
C4_Witness ==
    /\ calls = 3
    /\ last.op = "openPopup"
    /\ callbacks = <<"onOpen", "onClose", "onOpen">>
    /\ created = 2
    /\ modalElementMap = 2
    /\ body = {2}

C6_OpenCallbackIffAttached ==
    /\ \A i \in 1..Len(trace) :
          /\ trace[i].ev = "onOpen" => i > 1 /\ trace[i - 1].ev = "appendChild"
          /\ trace[i].ev = "appendChild" =>
                i < Len(trace) /\ trace[i + 1].ev = "onOpen"
    /\ (/\ last.op = "openPopup"
        /\ trace[Len(trace)].ev = "console.error"
        /\ trace[Len(trace)].err \in OpenFailures) =>
          /\ IsClosed
          /\ body = {}
          /\ EventsOf(trace, "onOpen") = {}
          /\ EventsOf(trace, "appendChild") = {}

\* C6 witness: a failed openPopup on a controller no base URL was given to.
C6_Witness ==
    /\ last.op = "openPopup"
    /\ trace[Len(trace)].ev = "console.error"
    /\ trace[Len(trace)].err = "ConfigurationError"
    /\ IsClosed

\* C7: closePopup propagates no error to its caller in any reachable state.
C7_CloseNeverThrows == last.op = "closePopup" => last.threw = ""

\* C8: with no base URL configured (url absent or empty) buildUrl fails with
\* the configuration error for every pair of parameter maps, rejected values
\* included (the configuration check comes first); through openPopup nothing
\* is attached.
C8_NoUrlIsConfigurationError ==
    (cfg.url = <<>> \/ cfg.url = << <<>> >>) =>
        /\ \A i \in EventsOf(trace, "buildUrl") :
              trace[i].err = "ConfigurationError"
        /\ body = {}
        /\ IsClosed

\* a value holds a character outside [A-Za-z0-9_-]
HasDisallowedChar(value) ==
    \E k \in 1..Len(value) :
        value[k] \notin Lower \cup Upper \cup Digit \cup {"_", "-"}
SomeValueDisallowed(params) ==
    \E i \in 1..Len(params) : HasDisallowedChar(params[i][2])

\* C8 witness: buildUrl ran with the empty string as base URL and a rejected
\* path value, and failed with the configuration error.
C8_Witness ==
    /\ cfg.url = << <<>> >>
    /\ \E i \in EventsOf(trace, "buildUrl") :
          /\ SomeValueDisallowed(trace[i].pp)
          /\ trace[i].err = "ConfigurationError"

\* C9: with a base URL configured, buildUrl fails with the validation error
\* exactly when some value of the path map or of the query map holds a
\* character outside [A-Za-z0-9_-]; values of allow-listed characters only,
\* the empty string included, never fail validation.
C9_ValidationIffDisallowedChar ==
    (cfg.url # <<>> /\ cfg.url # << <<>> >>) =>
        \A i \in EventsOf(trace, "buildUrl") :
            (trace[i].err = "ValidationError")
                <=> (SomeValueDisallowed(trace[i].pp)
                     \/ SomeValueDisallowed(trace[i].qp))

\* C9 witness: buildUrl accepted a path value with "-" and "_" and an empty
\* query value.
C9_Witness ==
    \E i \in EventsOf(trace, "buildUrl") :
        /\ trace[i].err = ""
        /\ \E j \in 1..Len(trace[i].pp) : trace[i].pp[j][2] = <<"Z", "-", "_", "9">>
        /\ \E j \in 1..Len(trace[i].qp) : trace[i].qp[j][2] = <<>>

\* what C10 describes: scanning the template, a placeholder ":identifier"
\* whose whole identifier is a key is replaced by that key's value at its
\* first occurrence, and every other placeholder is copied unchanged
IdentifierChar == Lower \cup Upper \cup Digit \cup {"_"}
PlaceholderEnd(t, i) ==
    LET stops == {j \in (i + 1)..Len(t) : t[j] \notin IdentifierChar}
    IN IF stops = {} THEN Len(t)
       ELSE (CHOOSE j \in stops : \A k \in stops : j <= k) - 1
ValueOf(params, key) ==
    params[CHOOSE i \in 1..Len(params) : params[i][1] = key][2]
HasKey(params, key) == \E i \in 1..Len(params) : params[i][1] = key
RECURSIVE SubstituteByPlaceholder(_, _, _, _)
SubstituteByPlaceholder(t, i, params, done) ==
    IF i > Len(t) THEN <<>>
    ELSE IF t[i] # ":" THEN <<t[i]>> \o SubstituteByPlaceholder(t, i + 1, params, done)
    ELSE LET j == PlaceholderEnd(t, i)
             name == SubSeq(t, i + 1, j)
         IN IF HasKey(params, name) /\ name \notin done
            THEN ValueOf(params, name)
                 \o SubstituteByPlaceholder(t, j + 1, params, done \cup {name})
            ELSE SubSeq(t, i, j)
                 \o SubstituteByPlaceholder(t, j + 1, params, done)
\* the part of a built URL before the "?" buildUrl appends
PathPart(url) == SubSeq(url, 1, IndexOf(url, <<"?">>) - 1)

\* C10: for a configured template and valid parameters, the path part of
\* buildUrl's result is the template with, for each path entry, the first
\* occurrence of the placeholder ":name" replaced by the value, every
\* placeholder whose full identifier is no key left unchanged.
C10_SubstitutesWholePlaceholders ==
    \A i \in EventsOf(trace, "buildUrl") :
        trace[i].err = "" =>
            PathPart(trace[i].s)
                = SubstituteByPlaceholder(modalUrl[1], 1, trace[i].pp, {})

\* key=value pairs joined by "&", in the order of the entries
C11_Pair(entry) == entry[1] \o <<"=">> \o entry[2]
RECURSIVE C11_Join(_, _)
C11_Join(params, n) ==
    IF n = 0 THEN <<>>
    ELSE IF n = 1 THEN C11_Pair(params[1])
    ELSE C11_Join(params, n - 1) \o <<"&">> \o C11_Pair(params[n])

\* C11: buildUrl's result is the substituted path, a literal "?", then the
\* query entries as key=value pairs joined by "&" in map order; with an empty
\* query map the result ends with the "?".
C11_PathThenQuery ==
    \A i \in EventsOf(trace, "buildUrl") :
        trace[i].err = "" =>
            /\ trace[i].s = ReplacePlaceholders(modalUrl[1], trace[i].pp)
                            \o <<"?">>
                            \o C11_Join(trace[i].qp, Len(trace[i].qp))
            /\ (trace[i].qp = <<>> => trace[i].s[Len(trace[i].s)] = "?")

\* C11 witness: buildUrl rendered the two query entries r and q in that order.
C11_Witness ==
    \E i \in EventsOf(trace, "buildUrl") :
        /\ trace[i].err = ""
        /\ Len(trace[i].qp) = 2
        /\ trace[i].qp[1][1] = <<"r">>
        /\ SubSeq(trace[i].s, Len(trace[i].s) - 5, Len(trace[i].s))
               = <<"?", "r", "=", "&", "q", "=">>

\* "https://example.com/store/666/?color=black&size=medium"
C12_Result ==
    <<"h", "t", "t", "p", "s", ":", "/", "/", "e", "x", "a", "m", "p", "l",
       "e", ".", "c", "o", "m", "/", "s", "t", "o", "r", "e", "/", "6", "6",
       "6", "/", "?", "c", "o", "l", "o", "r", "=", "b", "l", "a", "c", "k",
       "&", "s", "i", "z", "e", "=", "m", "e", "d", "i", "u", "m">>

\* C12: for the template "https://example.com/:store_name/:product_slug/",
\* path parameters {store_name: "store", product_slug: "666"} and query
\* parameters {color: "black", size: "medium"}, buildUrl returns exactly
\* "https://example.com/store/666/?color=black&size=medium".
C12_DocumentedExample ==
    cfg.url = <<ExampleTemplate>> =>
        \A i \in EventsOf(trace, "buildUrl") :
            (trace[i].pp = ExamplePath /\ trace[i].qp = ExampleQuery) =>
                trace[i].err = "" /\ trace[i].s = C12_Result

\* C12 witness: buildUrl ran on that template with those parameters.
C12_Witness ==
    /\ cfg.url = <<ExampleTemplate>>
    /\ \E i \in EventsOf(trace, "buildUrl") :
          /\ trace[i].pp = ExamplePath
          /\ trace[i].qp = ExampleQuery
          /\ trace[i].err = ""

\* "http://127.0.0.1/store/666?color=black&size=medium"
C13_Result ==
    <<"h", "t", "t", "p", ":", "/", "/", "1", "2", "7", ".", "0", ".", "0",
       ".", "1", "/", "s", "t", "o", "r", "e", "/", "6", "6", "6", "?", "c",
       "o", "l", "o", "r", "=", "b", "l", "a", "c", "k", "&", "s", "i", "z",
       "e", "=", "m", "e", "d", "i", "u", "m">>

\* C13: a controller created with url
\* "http://127.0.0.1/:store_name/:product_slug/" and opened with
\* {store_name: "store", product_slug: "666"}, {color: "black", size: "medium"}
\* has its frame pointing at exactly
\* "http://127.0.0.1/store/666?color=black&size=medium".
C13_ReadmeExample ==
    cfg.url = <<ReadmeTemplate>> =>
        \A i \in EventsOf(trace, "buildUrl") :
            (trace[i].pp = ExamplePath /\ trace[i].qp = ExampleQuery) =>
                /\ trace[i + 1].ev = "createModalElement"
                /\ trace[i + 1].s = C13_Result
                /\ (trace[i + 1].id \in DOMAIN elements =>
                       elements[trace[i + 1].id].src = C13_Result)

\* ------------------------------------------------------------ C14
StyleRegions == {"container", "content", "iframe"}
StyleKeys(styles) == {styles[i][1] : i \in 1..Len(styles)}
StyleValue(styles, key) ==
    styles[CHOOSE i \in 1..Len(styles) : styles[i][1] = key][2]

\* C14: on every modal element built, the styles of each region (container,
\* content, iframe) are the shallow merge of the caller's override of that
\* region over the defaults of that region: a property the caller gives has
\* the caller's value, every other default property keeps its default, no
\* other property appears, and the overrides of the other regions play no part.
C14_StylesAreShallowMerge ==
    \A id \in DOMAIN elements : \A r \in StyleRegions :
        LET applied == elements[id].styles[r]
            override == cfg.styles[r]
            defaults == DEFAULT_STYLES[r]
        IN  /\ StyleKeys(applied) = StyleKeys(defaults) \cup StyleKeys(override)
            /\ \A i, j \in 1..Len(applied) :
                   applied[i][1] = applied[j][1] => i = j
            /\ \A k \in StyleKeys(override) :
                   StyleValue(applied, k) = StyleValue(override, k)
            /\ \A k \in StyleKeys(defaults) \ StyleKeys(override) :
                   StyleValue(applied, k) = StyleValue(defaults, k)

\* an element whose content width is overridden while the container and the
\* iframe, which also have a width, keep theirs
C14_Witness ==
    \E id \in DOMAIN elements :
        /\ id \in body
        /\ cfg.styles.content = << <<"width", "90%">> >>
        /\ StyleValue(elements[id].styles.content, "width") = "90%"
        /\ StyleValue(elements[id].styles.container, "width") = "100%"
        /\ StyleValue(elements[id].styles.iframe, "width") = "100%"
        /\ StyleValue(elements[id].styles.container, "backgroundColor")
               = "rgba(0, 0, 0, 0.8)"
        /\ StyleValue(elements[id].styles.content, "backgroundColor") = "white"

C20_AssociationIffAttached ==
    /\ IsOpen => body = {modalElementMap}
    /\ IsClosed => body = {}

\* an openPopup whose onOpen callback raised has returned: the element is
\* both recorded and attached
C20_Witness ==
    /\ last.op = "openPopup"
    /\ trace[Len(trace)].ev = "console.error"
    /\ trace[Len(trace)].err = "CallbackError"
    /\ IsOpen
    /\ body = {modalElementMap}

\* ------------------------------------------------------------ C16
\* C16: a load failure of the iframe of an open controller appends one error
\* message to the content panel of that modal and logs the failure; the
\* lifecycle is unchanged: the element stays attached, the association stays
\* recorded, and neither onOpen nor onClose is invoked.
C16_FrameErrorKeepsLifecycle ==
    [][last'.op = "frameError" =>
          /\ IsOpen
          /\ modalElementMap' = modalElementMap
          /\ body' = body
          /\ DOMAIN elements' = DOMAIN elements
          /\ \A el \in DOMAIN elements :
                 /\ elements'[el].errorMessages =
                        elements[el].errorMessages
                            + (IF el = modalElementMap THEN 1 ELSE 0)
                 /\ elements'[el].src = elements[el].src
          /\ \E i \in EventsOf(trace', "console.error") :
                 trace'[i].id = modalElementMap
          /\ EventsOf(trace', "onOpen") = {}
          /\ EventsOf(trace', "onClose") = {}
          /\ callbacks' = callbacks
          /\ last'.threw = ""]_vars

\* the iframe of an attached modal has failed to load twice
C16_Witness ==
    /\ last.op = "frameError"
    /\ IsOpen
    /\ modalElementMap \in body
    /\ elements[modalElementMap].errorMessages = 2

\* ------------------------------------------------------------ C15
\* a callback that was invoked during the call called back into the controller
CallbackReentered(tr) ==
    \E i, j \in 1..Len(tr) :
        /\ i < j
        /\ tr[i].ev \in {"onOpen", "onClose"}
        /\ tr[j].ev \in {"openPopup", "closePopup"}

\* C15: on an open controller, a click on the backdrop (target: the container)
\* and a click on the close button each run closePopup exactly once (the close
\* button's click bubbling to the container runs no second one): the element
\* is detached, onClose fires exactly once for the click, and the controller
\* is closed unless the callback itself called back into the controller.  A
\* click on the content panel, which only bubbles to the container, runs no
\* closePopup and changes nothing.
C15_ClicksDismissOnce ==
    [][/\ last'.op \in {"clickBackdrop", "clickCloseButton"} =>
             /\ IsOpen
             /\ Cardinality(EventsOf(trace', "closePopup")) = 1
             /\ \A i \in EventsOf(trace', "closePopup") :
                    trace'[i].id = modalElementMap
             /\ Cardinality(EventsOf(trace', "onClose")) = 1
             /\ Count(callbacks', "onClose") = Count(callbacks, "onClose") + 1
             /\ modalElementMap \notin body'
             /\ ~CallbackReentered(trace') =>
                    /\ modalElementMap' = NoElement
                    /\ body' = {}
                    /\ callbacks' = Append(callbacks, "onClose")
       /\ last'.op = "clickContent" =>
             /\ IsOpen
             /\ EventsOf(trace', "closePopup") = {}
             /\ EventsOf(trace', "onClose") = {}
             /\ modalElementMap' = modalElementMap
             /\ body' = body
             /\ elements' = elements
             /\ callbacks' = callbacks]_vars

\* the close button of an attached modal was clicked: the controller is closed
\* and onClose has fired once since the modal was opened
C15_Witness ==
    /\ last.op = "clickCloseButton"
    /\ trace[1].ev = "click"
    /\ trace[1].err = "closeButton"
    /\ IsClosed
    /\ body = {}
    /\ callbacks = <<"onOpen", "onClose">>

\* ------------------------------------------------------------ C18
\* C18: buildUrl is pure and deterministic: no call changes the stored
\* template or the configuration, a call that fails leaves the association and
\* the body as they were, and every call, in whatever state and after however
\* many open/close cycles, gives the outcome that the template the controller
\* was constructed with gives for those parameters.
C18_BuildUrlIsPure ==
    [][/\ modalUrl' = modalUrl
       /\ modalUrl' = ConstructModalUrl(cfg)
       /\ cfg' = cfg
       /\ \A i \in EventsOf(trace', "buildUrl") :
              /\ [threw |-> trace'[i].err, url |-> trace'[i].s]
                     = BuildUrl(ConstructModalUrl(cfg), trace'[i].pp, trace'[i].qp)
              /\ (trace'[i].err # "" /\ ~CallbackReentered(trace')) =>
                     /\ modalElementMap' = modalElementMap
                     /\ body' = body
                     /\ elements' = elements]_vars

\* the third call was an openPopup that built a URL with path parameters on a
\* controller that had been opened and closed before
C18_Witness ==
    /\ last.op = "openPopup"
    /\ callbacks = <<"onOpen", "onClose", "onOpen">>
    /\ \E i \in EventsOf(trace, "buildUrl") :
           /\ trace[i].err = ""
           /\ trace[i].pp # NoParams
           /\ trace[i].s # modalUrl[1]
    /\ modalUrl = ConstructModalUrl(cfg)

\* ------------------------------------------------------------ C17
\* C17: for a controller constructed in a browser, a beforeunload signal
\* leads, once the debounce delay has passed, to exactly one closePopup of
\* that controller (so an element it had attached is detached), and repeated
\* signals lead to at most one: a signal after the first arms no new timeout.
C17_UnloadClosesOnce ==
    [][/\ last'.op = "unloadTimeout" =>
             /\ Cardinality(EventsOf(trace', "closePopup")) >= 1
             /\ \A i \in EventsOf(trace', "closePopup") :
                    ~(\E j \in 1..(i - 1) : trace'[j].ev \in {"onOpen", "onClose"})
                        => i = 2 /\ trace'[i].id = modalElementMap
             /\ IsOpen => modalElementMap \notin body'
             /\ ~unloadTimer' /\ ~unloadListener'
       /\ (last'.op = "beforeUnload" /\ ~unloadListener) =>
             unloadTimer' = unloadTimer]_vars

\* ------------------------------------------------------------ C21
\* C21: in the sequence of callback invocations of the controller, any two
\* invocations of onOpen have an invocation of onClose between them, also
\* when a callback calls openPopup or closePopup itself; hence onOpen has
\* been invoked at most once more than onClose.
C21_OpenCallbacksAlternate ==
    /\ \A i, j \in 1..Len(callbacks) :
           (i < j /\ callbacks[i] = "onOpen" /\ callbacks[j] = "onOpen") =>
               \E k \in (i + 1)..(j - 1) : callbacks[k] = "onClose"
    /\ Count(callbacks, "onOpen") <= Count(callbacks, "onClose") + 1

\* onOpen has been invoked twice, the second time from within onClose, which
\* called openPopup
C21_Witness ==
    /\ cfg.onClose = "openPopup"
    /\ CallbackReentered(trace)
    /\ Count(callbacks, "onOpen") >= 2
    /\ \E i \in 2..Len(trace) :
           trace[i].ev = "onOpen" /\ \E j \in 1..(i - 1) : trace[j].ev = "onClose"

\* ------------------------------------------------------------ C22
\* the records that hold the entries of params in some other iteration order
Reorderings(params) ==
    LET n == Len(params)
    IN {[i \in 1..n |-> params[f[i]]] :
            f \in {g \in [1..n -> 1..n] :
                       \A i, j \in 1..n : i # j => g[i] # g[j]}}

\* C22: for a template and a set of valid path-parameter entries, the URL
\* buildUrl returns is the same for every order in which the entries are
\* iterated: each reordering of the path parameters of a successful call
\* gives the URL that call gave.
C22_PathOrderIrrelevant ==
    \A i \in EventsOf(trace, "buildUrl") :
        trace[i].err = "" =>
            \A pp \in Reorderings(trace[i].pp) :
                BuildUrl(modalUrl, pp, trace[i].qp)
                    = [threw |-> "", url |-> trace[i].s]

=============================================================================
